---- MODULE Spec2Model ----
(***************************************************************************)
(* Booking workflow of the polyphonica site: concert ticket orders and     *)
(* workshop registrations paid through Stripe Checkout.                    *)
(*                                                                         *)
(* The catalogue holds one event, a Concert or a Workshop.  The database   *)
(* rows, the buyers' browser sessions and the Stripe account are the       *)
(* shared state.  Every HTTP handler runs as a request whose database      *)
(* queries are separate atomic steps (Django's autocommit), so requests    *)
(* interleave between queries.  Staff edits through the admin site are     *)
(* single steps.                                                           *)
(*                                                                         *)
(* The finance side keeps a StripeTransaction per paid row, written by the *)
(* fee sync and the legacy import, and the staff's expenses; its reports   *)
(* are computed from those rows.                                           *)
(***************************************************************************)
EXTENDS Integers, Sequences, FiniteSets, TLC

\* ---------------------------------------------------------------- bounds
NumBuyers == 2
MaxSessions == 2
MaxRequests == 2
MaxQuantity == 2
MaxCapacity == 1
MaxLegacy == 1
MaxTime == 3
MaxStaffEdits == 1
MaxCount == 3
MaxRuns == 2
MaxPi == 2
MaxAmount == 2
MaxFee == 1
MaxDays == 1
MaxTransactions == 3
MaxRows == 2
FirstYear == 2024
LastYear == 2026
MaxExpenses == 2
MaxItems == 3

Buyers == 1..NumBuyers
Requests == 1..MaxRequests
Sessions == 1..MaxSessions
SyncRuns == 1..MaxRuns

\* ------------------------------------------------------ program constants
ORDER_STATUSES == {"pending", "paid", "refunded", "cancelled"}
REGISTRATION_STATUSES == {"pending", "paid", "attended", "cancelled", "refunded"}
TICKET_SOURCES == {"internal", "external", "door", "none"}
FORM_MAX_QUANTITY == 10
REFUND_DAYS == 7

\* None, '' and absent keys
NoCapacity == -1
NoSid == 0
NoPi == 0
NoData == 0

VARIABLES
    concert,      \* the Concert row
    orders,       \* ConcertTicketOrder rows, a sequence indexed by id
    workshop,     \* the Workshop row
    regs,         \* WorkshopRegistration rows by user (unique per workshop and user)
    staged,       \* request.session of every buyer's browser
    stripe,       \* Stripe checkout sessions, a sequence indexed by id
    req,          \* in-flight requests
    now,          \* timezone.now()
    staffEdits,   \* number of staff edits made so far
    page,         \* what the last rendered detail page showed
    hist,         \* per checkout session: deliveries and recordings so far
    response,     \* the last response of a webhook endpoint
    transactions, \* StripeTransaction rows, a sequence indexed by id
    expenses,     \* Expense rows by id
    syncs,        \* sync_stripe_fees runs in progress
    today,        \* timezone.now().date()
    users,        \* the buyers who have a User account
    report,       \* what the last finance command or report returned
    items         \* ProgrammeItem rows of one programme: order by pk

db == <<concert, orders, workshop, regs>>
vars == <<concert, orders, workshop, regs, staged, stripe, req, now, staffEdits,
          page, hist, response, transactions, expenses, syncs, today, users,
          report, items>>
history == <<hist, response>>
\* what the checkout handlers never write
finance == <<transactions, expenses, syncs, today, users, report, items>>
\* what the finance commands and pages never write
browsing == <<staged, stripe, req, now, staffEdits, page, hist, response, items>>

\* ------------------------------------------------------------------ values
\* A ledger row.  Order rows use quantity; registration rows have quantity 1.
\* confirmation_sent and the contact fields are written but never read by
\* the handlers and are left out.
NoRow == [quantity |-> 0, status |-> "none", stripe_checkout_session_id |-> NoSid,
          stripe_payment_intent_id |-> NoPi, paid_at |-> 0]
\* request.session: 'concert_order' holds the staged quantity and
\* 'workshop_registration' the staged user id.  ('stripe_checkout_session_id'
\* is written and deleted with them and read nowhere.)
NoSession == [concert_order |-> NoData, workshop_registration |-> NoData]
Idle == [h |-> "idle", pc |-> "idle", buyer |-> 0, sid |-> NoSid, snap |-> 0,
         data |-> NoData, oid |-> 0, row |-> NoRow, replay |-> FALSE]
NoHist == [delivered |-> 0, recorded |-> FALSE, refund_requests |-> 0]
NoResponse == [sent |-> FALSE, sigOk |-> FALSE, status |-> 0]
NoDate == [year |-> 0, month |-> 0, day |-> 0]
NoReport == [kind |-> "none"]
NoPage == [rendered |-> FALSE, sold_out |-> FALSE, remaining |-> NoCapacity]
NoConcert == [exists |-> FALSE, ticket_source |-> "none", capacity |-> NoCapacity,
              tickets_sold |-> 0]
NoWorkshop == [exists |-> FALSE, max_participants |-> 0, current_registrations |-> 0,
               legacy_bookings |-> 0]

SessionIds == 1..Len(stripe)
OrderIds == 1..Len(orders)

AllIdle == \A r \in Requests : req[r].h = "idle"

\* the lowest free request slot
FreeSlot(r) == /\ req[r].h = "idle"
               /\ \A q \in Requests : q < r => req[q].h # "idle"

Max(a, b) == IF a >= b THEN a ELSE b
Min(a, b) == IF a <= b THEN a ELSE b

\* the payment intent of a checkout session
payment_intent(s) == s

\* ================================================ concerts/models.py
\* is_sold_out with the comparison made strict
is_sold_out_strict(c) ==
    IF c.ticket_source # "internal" \/ c.capacity = NoCapacity \/ c.capacity = 0
    THEN FALSE
    ELSE c.tickets_sold > c.capacity

\* Concert.is_sold_out ("not self.capacity" holds for None and for 0)
is_sold_out(c) ==
    IF c.ticket_source # "internal" \/ c.capacity = NoCapacity \/ c.capacity = 0
    THEN FALSE
    ELSE c.tickets_sold >= c.capacity

\* Concert.tickets_remaining; NoCapacity stands for None
tickets_remaining(c) ==
    IF c.ticket_source # "internal" \/ c.capacity = NoCapacity \/ c.capacity = 0
    THEN NoCapacity
    ELSE Max(0, c.capacity - c.tickets_sold)

\* the form without clean_quantity
quantity_in_range(c, q) ==
    /\ q >= 1
    /\ q <= FORM_MAX_QUANTITY

\* ConcertTicketOrderForm: quantity is 1..10 and at most tickets_remaining
quantity_valid(c, q) ==
    /\ q >= 1
    /\ q <= FORM_MAX_QUANTITY
    /\ tickets_remaining(c) # NoCapacity => q <= tickets_remaining(c)

\* ================================================ workshops/models.py
total_bookings(w) == w.current_registrations + w.legacy_bookings

\* is_full with the comparison made strict
is_full_strict(w) == total_bookings(w) > w.max_participants

is_full(w) == total_bookings(w) >= w.max_participants

places_remaining(w) == Max(0, w.max_participants - total_bookings(w))

\* registrations.filter(status__in=['paid', 'attended']).count()
confirmed_count(rows) == Cardinality({u \in Buyers : rows[u].status \in {"paid", "attended"}})

\* ================================================ Stripe
\* the buyer pays on Stripe's hosted page
Pay(s) ==
    /\ s \in SessionIds
    /\ stripe[s].payment_status = "unpaid"
    /\ stripe' = [stripe EXCEPT ![s].payment_status = "paid"]
    /\ UNCHANGED <<db, staged, req, now, staffEdits, page>>

\* ================================================ concerts/views.py
\* order_tickets: one database read (the concert), then the session write and
\* the Stripe call.  stripeOk = FALSE is stripe.error.StripeError.
order_tickets(b, q, stripeOk) ==
    /\ concert.exists
    /\ concert.ticket_source = "internal"
    /\ ~is_sold_out(concert)
    /\ quantity_valid(concert, q)
    /\ staged' = [staged EXCEPT ![b].concert_order = q]
    /\ IF stripeOk
       THEN /\ Len(stripe) < MaxSessions
            /\ stripe' = Append(stripe, [type |-> "concert", buyer |-> 0, quantity |-> q,
                                         payment_status |-> "unpaid", refunds |-> 0])
       ELSE UNCHANGED stripe
    /\ UNCHANGED <<db, req, now, staffEdits, page>>

\* checkout_success, lines 164-180: the concert is read, the session id is
\* taken from the query string, Stripe is asked for the session (stripeOk =
\* FALSE is StripeError) and the staged order is read from the browser
\* session.  A missing session id, a StripeError and a payment status other
\* than 'paid' are answered with an error message and a redirect.
\* (c_redirect_trusted is the check without the payment status.)
c_redirect_trusted(s, stripeOk) ==
    /\ s # NoSid
    /\ stripeOk

c_payment_verified(s, stripeOk) ==
    /\ s # NoSid
    /\ stripeOk
    /\ stripe[s].payment_status = "paid"

c_success_begin(r, b, s, stripeOk) ==
    /\ concert.exists
    /\ FreeSlot(r)
    /\ s \in SessionIds \cup {NoSid}
    /\ IF c_payment_verified(s, stripeOk)
       THEN req' = [req EXCEPT ![r] =
                [Idle EXCEPT !.h = "c_success", !.pc = "check", !.buyer = b, !.sid = s,
                             !.snap = concert.tickets_sold,
                             !.data = staged[b].concert_order,
                             !.replay = hist[s].recorded /\ AllIdle]]
       ELSE UNCHANGED req
    /\ UNCHANGED <<db, staged, stripe, now, staffEdits, page>>

\* ConcertTicketOrder.objects.filter(stripe_checkout_session_id=s)
orders_with_session(s) == {o \in OrderIds : orders[o].stripe_checkout_session_id = s}

\* the look-up without the test for staged order data
c_success_check_any(r) ==
    /\ req[r].h = "c_success" /\ req[r].pc = "check"
    /\ req' = [req EXCEPT ![r] =
           IF orders_with_session(req[r].sid) # {}
           THEN [req[r] EXCEPT !.pc = "clear"]
           ELSE [req[r] EXCEPT !.pc = "create"]]
    /\ UNCHANGED <<db, staged, stripe, now, staffEdits, page>>

\* lines 181-199: the look-up of an order with this session id
c_success_check(r) ==
    /\ req[r].h = "c_success" /\ req[r].pc = "check"
    /\ req' = [req EXCEPT ![r] =
           IF req[r].data = NoData
           THEN Idle
           ELSE IF orders_with_session(req[r].sid) # {}
                THEN [req[r] EXCEPT !.pc = "clear"]
                ELSE [req[r] EXCEPT !.pc = "create"]]
    /\ UNCHANGED <<db, staged, stripe, now, staffEdits, page>>

\* the create step with the capacity check repeated: a sold-out concert
\* ends the request with nothing recorded
c_success_create_checked(r) ==
    /\ req[r].h = "c_success" /\ req[r].pc = "create"
    /\ now < MaxTime
    /\ IF is_sold_out(concert)
       THEN /\ req' = [req EXCEPT ![r] = Idle]
            /\ UNCHANGED <<orders, now>>
       ELSE /\ orders' = Append(orders, [NoRow EXCEPT !.quantity = req[r].data,
                                                      !.status = "paid",
                                                      !.stripe_checkout_session_id = req[r].sid,
                                                      !.paid_at = now])
            /\ now' = now + 1
            /\ req' = [req EXCEPT ![r].pc = "count", ![r].oid = Len(orders) + 1]
    /\ UNCHANGED <<concert, workshop, regs, staged, stripe, staffEdits, page>>

\* lines 203-215: ConcertTicketOrder.objects.create(status='paid', ...)
c_success_create(r) ==
    /\ req[r].h = "c_success" /\ req[r].pc = "create"
    /\ now < MaxTime
    /\ orders' = Append(orders, [NoRow EXCEPT !.quantity = req[r].data,
                                              !.status = "paid",
                                              !.stripe_checkout_session_id = req[r].sid,
                                              !.paid_at = now])
    /\ now' = now + 1
    /\ req' = [req EXCEPT ![r].pc = "count", ![r].oid = Len(orders) + 1]
    /\ UNCHANGED <<concert, workshop, regs, staged, stripe, staffEdits, page>>

\* lines 218-219: the counter is written from the copy of the concert that was
\* read at the start of the request
c_success_count(r) ==
    /\ req[r].h = "c_success" /\ req[r].pc = "count"
    /\ concert' = [concert EXCEPT !.tickets_sold = req[r].snap + req[r].data]
    /\ req' = [req EXCEPT ![r].pc = "clear"]
    /\ UNCHANGED <<orders, workshop, regs, staged, stripe, now, staffEdits, page>>

\* lines 231-236: the staged order is deleted and the session saved
c_success_clear(r) ==
    /\ req[r].h = "c_success" /\ req[r].pc = "clear"
    /\ staged' = [staged EXCEPT ![req[r].buyer].concert_order = NoData]
    /\ req' = [req EXCEPT ![r] = Idle]
    /\ UNCHANGED <<db, stripe, now, staffEdits, page>>

\* ---- stripe_webhook (core/views.py holds the same code behind metadata
\* type = 'concert')
\* filter(stripe_checkout_session_id=s, status='pending').first(), newest first
pending_orders(s) == {o \in OrderIds : /\ orders[o].stripe_checkout_session_id = s
                                       /\ orders[o].status = "pending"}
newest(S) == CHOOSE o \in S : \A p \in S : p <= o

\* lines 263-277: verify_webhook, the event type, the metadata and the look-up
\* of the pending order.  Stripe sends checkout.session.completed for a session
\* that has been paid.  A bad signature is answered 400, anything else 200.
c_webhook_begin(r, s, sigOk, completed) ==
    /\ concert.exists
    /\ FreeSlot(r)
    /\ s \in SessionIds
    /\ stripe[s].payment_status = "paid"
    /\ IF sigOk /\ completed /\ pending_orders(s) # {}
       THEN req' = [req EXCEPT ![r] =
                [Idle EXCEPT !.h = "c_webhook", !.pc = "save", !.sid = s,
                             !.oid = newest(pending_orders(s)),
                             !.row = orders[newest(pending_orders(s))]]]
       ELSE UNCHANGED req
    /\ UNCHANGED <<db, staged, stripe, now, staffEdits, page>>

\* lines 280-282: order.save() writes every field of the order as it was read
c_webhook_save(r) ==
    /\ req[r].h = "c_webhook" /\ req[r].pc = "save"
    /\ now < MaxTime
    /\ orders' = [orders EXCEPT ![req[r].oid] =
                      [req[r].row EXCEPT !.status = "paid", !.paid_at = now]]
    /\ now' = now + 1
    /\ req' = [req EXCEPT ![r].pc = "read_concert"]
    /\ UNCHANGED <<concert, workshop, regs, staged, stripe, staffEdits, page>>

\* line 285: order.concert is fetched from the database
c_webhook_read_concert(r) ==
    /\ req[r].h = "c_webhook" /\ req[r].pc = "read_concert"
    /\ req' = [req EXCEPT ![r].pc = "write_concert", ![r].snap = concert.tickets_sold]
    /\ UNCHANGED <<db, staged, stripe, now, staffEdits, page>>

\* lines 285-288: tickets_sold += quantity is saved; the response is 200
c_webhook_write_concert(r) ==
    /\ req[r].h = "c_webhook" /\ req[r].pc = "write_concert"
    /\ concert' = [concert EXCEPT !.tickets_sold = req[r].snap + req[r].row.quantity]
    /\ req' = [req EXCEPT ![r] = Idle]
    /\ UNCHANGED <<orders, workshop, regs, staged, stripe, now, staffEdits, page>>

\* ---- concerts/admin.py: ConcertTicketOrderAdmin lets staff change the
\* status of an order; ModelAdmin saves the row with Model.save()
staff_set_order_status(o, st) ==
    /\ o \in OrderIds
    /\ st \in ORDER_STATUSES
    /\ st # orders[o].status
    /\ staffEdits < MaxStaffEdits
    /\ orders' = [orders EXCEPT ![o].status = st]
    /\ staffEdits' = staffEdits + 1
    /\ UNCHANGED <<concert, workshop, regs, staged, stripe, req, now, page>>

\* ================================================ workshops/views.py
\* WorkshopRegistration.save (models.py 197-200): the row is written and the
\* workshop's counter is counted again by Workshop.update_registration_count
registration_save(u, row) ==
    /\ regs' = [regs EXCEPT ![u] = row]
    /\ workshop' = [workshop EXCEPT !.current_registrations = confirmed_count(regs')]

\* register: the workshop and the user's registration are read, the
\* registration is staged in the browser session and Stripe is asked for a
\* checkout session (stripeOk = FALSE is StripeError)
register(b, stripeOk) ==
    /\ workshop.exists
    /\ ~is_full(workshop)
    /\ regs[b].status \notin {"paid", "attended"}
    /\ staged' = [staged EXCEPT ![b].workshop_registration = b]
    /\ IF stripeOk
       THEN /\ Len(stripe) < MaxSessions
            /\ stripe' = Append(stripe, [type |-> "workshop", buyer |-> b, quantity |-> 1,
                                         payment_status |-> "unpaid", refunds |-> 0])
       ELSE UNCHANGED stripe
    /\ UNCHANGED <<db, req, now, staffEdits, page>>

\* checkout_success, lines 193-212
w_payment_verified(s, stripeOk) ==
    /\ s # NoSid
    /\ stripeOk
    /\ stripe[s].payment_status = "paid"

\* The browser returns with the id of a checkout session it was sent to, or
\* with none.
w_success_begin(r, b, s, stripeOk) ==
    /\ workshop.exists
    /\ FreeSlot(r)
    /\ s \in SessionIds \cup {NoSid}
    /\ s # NoSid => stripe[s].buyer = b
    /\ IF w_payment_verified(s, stripeOk)
       THEN req' = [req EXCEPT ![r] =
                [Idle EXCEPT !.h = "w_success", !.pc = "check", !.buyer = b, !.sid = s,
                             !.data = staged[b].workshop_registration,
                             !.replay = hist[s].recorded /\ AllIdle]]
       ELSE UNCHANGED req
    /\ UNCHANGED <<db, staged, stripe, now, staffEdits, page>>

\* lines 213-244: without staged data the handler only looks for a row with
\* the session id and returns; with it, the user's registration is read
w_success_check(r) ==
    /\ req[r].h = "w_success" /\ req[r].pc = "check"
    /\ req' = [req EXCEPT ![r] =
           IF req[r].data = NoData
           THEN Idle
           ELSE IF regs[req[r].data].status = "none"
                THEN [req[r] EXCEPT !.pc = "create"]
                ELSE IF regs[req[r].data].status \in {"pending", "cancelled", "refunded"}
                     THEN [req[r] EXCEPT !.pc = "update"]
                     ELSE [req[r] EXCEPT !.pc = "clear"]]
    /\ UNCHANGED <<db, staged, stripe, now, staffEdits, page>>

\* the row the success handler writes: every modelled field is assigned
paid_registration(s) ==
    [NoRow EXCEPT !.quantity = 1, !.status = "paid", !.paid_at = now,
                  !.stripe_checkout_session_id = s,
                  !.stripe_payment_intent_id = payment_intent(s)]

\* lines 245-254: the row read earlier is marked paid and saved
w_success_update(r) ==
    /\ req[r].h = "w_success" /\ req[r].pc = "update"
    /\ now < MaxTime
    /\ registration_save(req[r].data, paid_registration(req[r].sid))
    /\ now' = now + 1
    /\ req' = [req EXCEPT ![r].pc = "clear"]
    /\ UNCHANGED <<concert, orders, staged, stripe, staffEdits, page>>

\* lines 262-276: WorkshopRegistration.objects.create(status='paid', ...); a
\* second row for the same workshop and user is an IntegrityError, which ends
\* the request
w_success_create(r) ==
    /\ req[r].h = "w_success" /\ req[r].pc = "create"
    /\ now < MaxTime
    /\ IF regs[req[r].data].status = "none"
       THEN /\ registration_save(req[r].data, paid_registration(req[r].sid))
            /\ now' = now + 1
            /\ req' = [req EXCEPT ![r].pc = "clear"]
       ELSE /\ req' = [req EXCEPT ![r] = Idle]
            /\ UNCHANGED <<regs, workshop, now>>
    /\ UNCHANGED <<concert, orders, staged, stripe, staffEdits, page>>

\* lines 293-298
w_success_clear(r) ==
    /\ req[r].h = "w_success" /\ req[r].pc = "clear"
    /\ staged' = [staged EXCEPT ![req[r].buyer].workshop_registration = NoData]
    /\ req' = [req EXCEPT ![r] = Idle]
    /\ UNCHANGED <<db, stripe, now, staffEdits, page>>

\* stripe_webhook, lines 323-363 (core/views.py holds the same code behind
\* metadata type = 'workshop'): the registration of the user named in the
\* session's metadata is read
w_webhook_begin(r, s, sigOk, completed) ==
    /\ workshop.exists
    /\ FreeSlot(r)
    /\ s \in SessionIds
    /\ stripe[s].payment_status = "paid"
    /\ IF sigOk /\ completed /\ regs[stripe[s].buyer].status = "pending"
       THEN req' = [req EXCEPT ![r] =
                [Idle EXCEPT !.h = "w_webhook", !.pc = "save", !.sid = s,
                             !.data = stripe[s].buyer,
                             !.row = regs[stripe[s].buyer]]]
       ELSE UNCHANGED req
    /\ UNCHANGED <<db, staged, stripe, now, staffEdits, page>>

\* lines 364-368: registration.save() writes every field of the row as read
w_webhook_save(r) ==
    /\ req[r].h = "w_webhook" /\ req[r].pc = "save"
    /\ now < MaxTime
    /\ registration_save(req[r].data,
           [req[r].row EXCEPT !.status = "paid", !.paid_at = now,
                              !.stripe_checkout_session_id = req[r].sid])
    /\ now' = now + 1
    /\ req' = [req EXCEPT ![r] = Idle]
    /\ UNCHANGED <<concert, orders, staged, stripe, staffEdits, page>>

\* cancel_registration, lines 434-455: a refund is requested when the
\* workshop is at least 7 days away and the row has a payment intent
refund_due(b, daysLeft) ==
    /\ daysLeft >= REFUND_DAYS
    /\ regs[b].stripe_payment_intent_id # NoPi

\* stripe.Refund.create succeeds: Stripe is reachable (stripeOk) and has not
\* refunded this payment before
refund_accepted(b, stripeOk) ==
    /\ stripeOk
    /\ stripe[regs[b].stripe_payment_intent_id].refunds = 0

\* the request goes on whatever Stripe answers
cancel_proceeds_always(b, daysLeft, stripeOk) == TRUE

\* lines 451-494: StripeError ends the request with an error message
cancel_proceeds(b, daysLeft, stripeOk) ==
    refund_due(b, daysLeft) => refund_accepted(b, stripeOk)

\* cancel_registration, lines 426-468: the user's paid registration is read;
\* daysLeft is the number of days until the workshop; the refund is created
\* at Stripe before the row is saved
cancel_begin(r, b, confirm, daysLeft, stripeOk) ==
    /\ workshop.exists
    /\ FreeSlot(r)
    /\ regs[b].status = "paid"
    /\ confirm
    /\ stripe' = IF refund_due(b, daysLeft) /\ refund_accepted(b, stripeOk)
                 THEN [stripe EXCEPT ![regs[b].stripe_payment_intent_id].refunds = @ + 1]
                 ELSE stripe
    /\ IF cancel_proceeds(b, daysLeft, stripeOk)
       THEN req' = [req EXCEPT ![r] =
                [Idle EXCEPT !.h = "w_cancel", !.pc = "save", !.buyer = b, !.data = b,
                             !.row = [regs[b] EXCEPT !.status =
                                         IF daysLeft >= REFUND_DAYS THEN "refunded"
                                         ELSE "cancelled"]]]
       ELSE UNCHANGED req
    /\ UNCHANGED <<db, staged, now, staffEdits, page>>

\* lines 471-472: registration.save()
cancel_save(r) ==
    /\ req[r].h = "w_cancel" /\ req[r].pc = "save"
    /\ registration_save(req[r].data, req[r].row)
    /\ req' = [req EXCEPT ![r] = Idle]
    /\ UNCHANGED <<concert, orders, staged, stripe, now, staffEdits, page>>

\* ---- workshops/admin.py: WorkshopRegistrationAdmin lets staff add, change
\* and delete registrations.  Adding and changing go through
\* WorkshopRegistration.save(); deleting does not.
staff_add_registration(u, st) ==
    /\ workshop.exists
    /\ regs[u].status = "none"
    /\ st \in REGISTRATION_STATUSES
    /\ staffEdits < MaxStaffEdits
    /\ registration_save(u, [NoRow EXCEPT !.quantity = 1, !.status = st])
    /\ staffEdits' = staffEdits + 1
    /\ UNCHANGED <<concert, orders, staged, stripe, req, now, page>>

staff_set_registration_status(u, st) ==
    /\ regs[u].status # "none"
    /\ st \in REGISTRATION_STATUSES
    /\ st # regs[u].status
    /\ staffEdits < MaxStaffEdits
    /\ registration_save(u, [regs[u] EXCEPT !.status = st])
    /\ staffEdits' = staffEdits + 1
    /\ UNCHANGED <<concert, orders, staged, stripe, req, now, page>>

staff_delete_registration(u) ==
    /\ regs[u].status # "none"
    /\ staffEdits < MaxStaffEdits
    /\ regs' = [regs EXCEPT ![u] = NoRow]
    /\ staffEdits' = staffEdits + 1
    /\ UNCHANGED <<concert, orders, workshop, staged, stripe, req, now, page>>

\* ================================================ webhook responses
\* what the metadata of an event can hold where an id is expected: nothing,
\* the id of no row, something that is not a number, the id of a row
METADATA_IDS == {"missing", "unknown", "malformed", "valid"}

\* concerts/views.py stripe_webhook: verify_webhook answers 400 to a bad
\* signature or body; concert_id is only tested for presence and the order is
\* looked up by the session id, so every other event is answered 200
c_webhook_status(sigOk, completed, concert_id) ==
    IF ~sigOk THEN 400 ELSE 200

\* workshops/views.py stripe_webhook (and the workshop branch of
\* core/views.py): 400 for a bad signature or body.  For
\* checkout.session.completed with both ids present, Workshop.objects.get
\* and then User.objects.get run inside "except (Workshop.DoesNotExist,
\* User.DoesNotExist)": the id of no row is caught and answered 200, a value
\* that is not a number raises ValueError, which nothing catches, and the
\* request ends with 500.
w_webhook_status(sigOk, completed, workshop_id, user_id) ==
    IF ~sigOk THEN 400
    ELSE IF ~completed THEN 200
    ELSE IF workshop_id = "missing" \/ user_id = "missing" THEN 200
    ELSE IF workshop_id = "malformed" THEN 500
    ELSE IF workshop_id = "unknown" THEN 200
    ELSE IF user_id = "malformed" THEN 500
    ELSE 200

Responded(sigOk, status) == [sent |-> TRUE, sigOk |-> sigOk, status |-> status]

\* an event whose metadata names no row of this site: nothing is looked up
\* or written
webhook_unmatched ==
    UNCHANGED <<db, staged, stripe, req, now, staffEdits, page>>

\* ================================================ finance/models.py
\* a StripeTransaction row.  workshop_registration and concert_order are the
\* one-to-one links (NoLink is NULL); charge_id is written next to
\* balance_transaction_id and read nowhere.
NoLink == 0
NoBt == 0

StripeTransaction(type, u, o, pi, bt, gross, fee, net, date) ==
    [transaction_type |-> type, workshop_registration |-> u, concert_order |-> o,
     payment_intent_id |-> pi, balance_transaction_id |-> bt,
     gross_amount |-> gross, stripe_fee |-> fee, net_amount |-> net,
     transaction_date |-> date]

TransactionIds == 1..Len(transactions)

\* StripeTransaction.objects.filter(workshop_registration=record) and
\* filter(concert_order=record)
transactions_of(type, id) ==
    {t \in TransactionIds : IF type = "workshop"
                            THEN transactions[t].workshop_registration = id
                            ELSE transactions[t].concert_order = id}

\* INSERT with no unique index on the two link columns
insert_unconstrained(row) == TRUE

\* INSERT into finance_stripetransaction: the OneToOneFields put a unique
\* index on each link column, and the PositiveIntegerFields a CHECK (>= 0)
\* on each amount; a violation is IntegrityError
insert_accepted(row) ==
    /\ row.workshop_registration # NoLink =>
          transactions_of("workshop", row.workshop_registration) = {}
    /\ row.concert_order # NoLink =>
          transactions_of("concert", row.concert_order) = {}
    /\ row.gross_amount >= 0 /\ row.stripe_fee >= 0 /\ row.net_amount >= 0

\* ================================================ sync_stripe_fees
\* Stripe's balance transaction of a charge: net is amount less fee
balance_transaction(id, amount, fee, created) ==
    [id |-> id, amount |-> amount, fee |-> fee, net |-> amount - fee,
     created |-> created]
NoBalance == balance_transaction(NoBt, 0, 0, 0)
\* what Stripe took for a payment intent: fixed once the charge is made
charged(p) == [amount |-> MaxAmount, fee |-> IF p % 2 = 1 THEN MaxFee ELSE 0]

NoRun == [pc |-> "idle", force |-> FALSE, intents |-> <<>>,
          done |-> {}, item |-> NoPi, existing |-> 0, bt |-> NoBalance]

\* status='paid', stripe_payment_intent_id__startswith='pi_', paid_at after
\* the cutoff unless --all, and no transaction yet unless --force
sync_selects(row, type, id, force, all, days) ==
    /\ row.status = "paid"
    /\ row.stripe_payment_intent_id # NoPi
    /\ all \/ row.paid_at >= now - days
    /\ force \/ transactions_of(type, id) = {}

workshop_query(force, all, days) ==
    {u \in Buyers : sync_selects(regs[u], "workshop", u, force, all, days)}
concert_query(force, all, days) ==
    {o \in OrderIds : sync_selects(orders[o], "concert", o, force, all, days)}

\* all_intents is a dict keyed by payment intent: of the rows that share one
\* the last one iterated stays, and an order replaces a registration.  Orders
\* come newest first (Meta.ordering), so the oldest stays; registrations come
\* by created_at, which the rows here do not carry.
intent_records(p, force, all, days) ==
    LET os == {o \in concert_query(force, all, days) :
                  orders[o].stripe_payment_intent_id = p}
        us == {u \in workshop_query(force, all, days) :
                  regs[u].stripe_payment_intent_id = p}
    IN  IF os # {}
        THEN {[type |-> "concert", id |-> CHOOSE o \in os : \A x \in os : o <= x]}
        ELSE {[type |-> "workshop", id |-> u] : u \in us}

intent_keys(force, all, days) ==
    {p \in 1..MaxPi : intent_records(p, force, all, days) # {}}

\* handle, lines 48-107: the two queries and the dict.  With --dry-run every
\* item ends at the "continue" of line 148, before anything is looked up or
\* written, so the run leaves no trace.
sync_begin(k, force, all, dry_run, days) ==
    /\ syncs[k].pc = "idle"
    /\ \E f \in [intent_keys(force, all, days) ->
                    [type : {"workshop", "concert"}, id : 1..MaxCount]] :
          /\ \A p \in DOMAIN f : f[p] \in intent_records(p, force, all, days)
          /\ syncs' = [syncs EXCEPT ![k] =
                          [NoRun EXCEPT !.pc = IF DOMAIN f = {} \/ dry_run
                                               THEN "idle" ELSE "items",
                                        !.force = IF DOMAIN f = {} \/ dry_run
                                                  THEN FALSE ELSE force,
                                        !.intents = IF dry_run THEN <<>> ELSE f]]
    /\ UNCHANGED <<db, browsing, transactions, expenses, today, users, report>>

\* lines 114-159: the next payment intent; Stripe is asked for the payment
\* intent, the charge and the balance transaction (outcome is what it
\* answers), then the record's transaction is looked up
sync_retrieve(k, outcome) ==
    /\ syncs[k].pc = "items"
    /\ LET run == syncs[k]
           left == DOMAIN run.intents \ run.done
       IN  IF left = {}
           THEN syncs' = [syncs EXCEPT ![k] = NoRun]
           ELSE LET p == CHOOSE x \in left : \A y \in left : x <= y
                    rec == run.intents[p]
                    row == IF rec.type = "workshop" THEN regs[rec.id] ELSE orders[rec.id]
                    found == transactions_of(rec.type, rec.id)
                IN  IF outcome # "ok"
                    THEN syncs' = [syncs EXCEPT ![k].done = run.done \cup {p}]
                    ELSE syncs' = [syncs EXCEPT
                            ![k].pc = "write", ![k].item = p,
                            ![k].bt = balance_transaction(p, charged(p).amount,
                                                          charged(p).fee, row.paid_at),
                            ![k].existing = IF found = {} THEN 0
                                            ELSE CHOOSE t \in found : TRUE]
    /\ UNCHANGED <<db, browsing, transactions, expenses, today, users, report>>

\* lines 161-201: existing.save() with --force, create when nothing was
\* found (IntegrityError is caught by "except Exception"), else nothing
sync_write(k) ==
    /\ syncs[k].pc = "write"
    /\ Len(transactions) < MaxTransactions
    /\ LET run == syncs[k]
           rec == run.intents[run.item]
           bt == run.bt
           new == StripeTransaction(rec.type,
                      IF rec.type = "workshop" THEN rec.id ELSE NoLink,
                      IF rec.type = "concert" THEN rec.id ELSE NoLink,
                      run.item, bt.id, bt.amount, bt.fee, bt.net, bt.created)
       IN  IF run.existing # 0 /\ run.force
           THEN transactions' = [transactions EXCEPT
                    ![run.existing].balance_transaction_id = bt.id,
                    ![run.existing].gross_amount = bt.amount,
                    ![run.existing].stripe_fee = bt.fee,
                    ![run.existing].net_amount = bt.net,
                    ![run.existing].transaction_date = bt.created]
           ELSE IF run.existing = 0 /\ insert_accepted(new)
           THEN transactions' = Append(transactions, new)
           ELSE UNCHANGED transactions
    /\ syncs' = [syncs EXCEPT ![k].pc = "items", ![k].item = NoPi,
                              ![k].existing = 0, ![k].bt = NoBalance,
                              ![k].done = syncs[k].done \cup {syncs[k].item}]
    /\ UNCHANGED <<db, browsing, expenses, today, users, report>>

\* ================================================ import_legacy_bookings
\* CSV amounts are Decimal pounds; they are counted here in tenths of a penny
MillsPerPenny == 10

\* int(amount * 100): the pence, rounded towards zero
pence(mills) == IF mills >= 0 THEN mills \div MillsPerPenny
                ELSE -((-mills) \div MillsPerPenny)

\* net_pence with the fee left out
net_pence_gross(gross_pence, fee_pence) == gross_pence

\* line 187
net_pence(gross_pence, fee_pence) == gross_pence - fee_pence

CsvAmounts == {MaxAmount * MillsPerPenny - 1}
CsvFees == {MaxFee * MillsPerPenny + 1, (MaxAmount + 1) * MillsPerPenny}
\* a row of the file: email stands for the user who has it, valid for
\* validate_row raising nothing
CsvRows == [email : Buyers, valid : BOOLEAN, amount : CsvAmounts, fee : CsvFees,
            payment_intent_id : {MaxPi}, transaction_date : {MaxTime}]
CsvFiles == UNION {[1..n -> CsvRows] : n \in 1..MaxRows}
\* the files that pass validation and the duplicate check
CleanFiles == {rows \in CsvFiles :
                 /\ \A i \in DOMAIN rows : rows[i].valid
                 /\ \A i, j \in DOMAIN rows : i # j => rows[i].email # rows[j].email}

\* lines 108-114: users who have a registration of any status
existing_emails(rows) ==
    {rows[i].email : i \in {j \in DOMAIN rows : regs[rows[j].email].status # "none"}}

\* lines 184-199
imported_transaction(row) ==
    LET gross_pence == pence(row.amount)
        fee_pence == pence(row.fee)
    IN  StripeTransaction("workshop", row.email, NoLink, row.payment_intent_id, NoBt,
                          gross_pence, fee_pence, net_pence(gross_pence, fee_pence),
                          row.transaction_date)

\* lines 169-180
imported_registration(row) ==
    [quantity |-> 1, status |-> "paid", stripe_checkout_session_id |-> NoSid,
     stripe_payment_intent_id |-> row.payment_intent_id, paid_at |-> row.transaction_date]

\* the duplicate check alone, with no row validated
duplicate_emails(rows) ==
    \E i, j \in DOMAIN rows : i # j /\ rows[i].email = rows[j].email

\* lines 88-106: a row validate_row refuses, or an email on two rows
file_rejected(rows) ==
    \/ \E i \in DOMAIN rows : ~rows[i].valid
    \/ \E i, j \in DOMAIN rows : i # j /\ rows[i].email = rows[j].email

\* writes made one after another with no transaction around them: when the
\* k-th fee record is refused, the users and registrations up to the k-th
\* and the fee records before it stay
unprotected_writes(k, created) ==
    IF k <= created THEN [regs |-> k, txs |-> k - 1, all |-> FALSE]
    ELSE [regs |-> created, txs |-> created, all |-> TRUE]

\* with transaction.atomic() (line 157): what is committed when the k-th
\* fee record is the first one refused (k = created + 1: none is)
atomic_writes(k, created) ==
    IF k <= created THEN [regs |-> 0, txs |-> 0, all |-> FALSE]
    ELSE [regs |-> created, txs |-> created, all |-> TRUE]

\* handle: validation of every row, the duplicate check, the preview, and
\* the writes of lines 157-206: per row the user, the registration (whose
\* save counts the registrations again) and the fee record, then the
\* legacy_bookings update
import_legacy_bookings(rows, dry_run) ==
    /\ workshop.exists
    /\ LET existing == existing_emails(rows)
           new == SelectSeq(rows, LAMBDA row : row.email \notin existing)
           created == Len(new)
           txs == [i \in 1..created |-> imported_transaction(new[i])]
           refused == {i \in 1..created : ~insert_accepted(txs[i])}
           k == IF refused = {} THEN created + 1
                ELSE CHOOSE i \in refused : \A j \in refused : i <= j
           w == atomic_writes(k, created)
       IN  IF file_rejected(rows) \/ dry_run \/ created = 0
           THEN UNCHANGED <<users, regs, workshop, transactions>>
           ELSE /\ Len(transactions) + created <= MaxTransactions
                /\ users' = users \cup {new[i].email : i \in 1..w.regs}
                /\ regs' = [u \in Buyers |->
                              IF \E i \in 1..w.regs : new[i].email = u
                              THEN imported_registration(
                                      new[CHOOSE i \in 1..w.regs : new[i].email = u])
                              ELSE regs[u]]
                /\ transactions' = transactions \o SubSeq(txs, 1, w.txs)
                /\ workshop' = [workshop EXCEPT
                      !.current_registrations = confirmed_count(regs'),
                      !.legacy_bookings = IF w.all /\ @ >= created
                                          THEN @ - created ELSE @]
    /\ UNCHANGED <<concert, orders, browsing, expenses, syncs, today>>

\* what the command prints or raises: the rows in error (lines 95-99), the
\* duplicate emails (104-106), the dry-run notice (142-146), nothing to
\* import (148-150), the exception of a refused INSERT, or the summary
import_output(rows, dry_run) ==
    LET existing == existing_emails(rows)
        new == SelectSeq(rows, LAMBDA row : row.email \notin existing)
        errors == {i \in DOMAIN rows : ~rows[i].valid}
    IN  [kind |-> "import", rows |-> rows, errors |-> errors,
         created |-> Len(new),
         outcome |-> IF errors # {} THEN "invalid"
                     ELSE IF file_rejected(rows) THEN "duplicates"
                     ELSE IF dry_run THEN "dry_run"
                     ELSE IF Len(new) = 0 THEN "nothing"
                     ELSE IF \E i \in 1..Len(new) : ~insert_accepted(imported_transaction(new[i]))
                     THEN "failed" ELSE "done"]

\* ================================================ finance/services.py
\* the calendar days of the years FirstYear..LastYear
Dates ==
    {d \in [year : FirstYear..LastYear, month : 1..12, day : 1..31] :
        d.day <= (IF d.month \in {4, 6, 9, 11} THEN 30
                  ELSE IF d.month # 2 THEN 31
                  ELSE IF d.year % 4 = 0 /\ (d.year % 100 # 0 \/ d.year % 400 = 0)
                  THEN 29 ELSE 28)}

date(year, month, day) == [year |-> year, month |-> month, day |-> day]

\* the tax year with 6 April counted into the year that ends
get_uk_tax_year_dates_late(d) ==
    LET year == IF d.month < 4 \/ (d.month = 4 /\ d.day <= 6)
                THEN d.year - 1 ELSE d.year
    IN  <<date(year, 4, 6), date(year + 1, 4, 5)>>

\* FinanceService.get_uk_tax_year_dates() with year=None; d is
\* timezone.now().date()
get_uk_tax_year_dates(d) ==
    LET year == IF d.month < 4 \/ (d.month = 4 /\ d.day < 6)
                THEN d.year - 1 ELSE d.year
    IN  <<date(year, 4, 6), date(year + 1, 4, 5)>>

\* datetimes count half days; transaction_date__date is the day
TicksPerDay == 2
date_of(t) == t \div TicksPerDay

\* None, what Sum() gives over no rows
NoTotal == -1

RECURSIVE column_sum(_, _, _)
column_sum(rows, ids, col) ==
    IF ids = {} THEN 0
    ELSE LET i == CHOOSE x \in ids : TRUE
         IN  rows[i][col] + column_sum(rows, ids \ {i}, col)

\* QuerySet.aggregate(Sum(col))
aggregate_sum(rows, ids, col) ==
    IF ids = {} THEN NoTotal ELSE column_sum(rows, ids, col)

\* to_pounds: Decimal(pence or 0) / 100.  Decimals are held as their count
\* of hundredths, which the division keeps exact.
to_pounds(total) == IF total = NoTotal \/ total = 0 THEN 0 ELSE total

\* get_income_summary with the end of the range taken as a datetime, the
\* midnight that begins end_date
get_income_summary_midnight(start_date, end_date) ==
    LET in_range(t) == /\ date_of(transactions[t].transaction_date) >= start_date
                       /\ transactions[t].transaction_date <= end_date * TicksPerDay
        ws == {t \in TransactionIds : /\ transactions[t].workshop_registration # NoLink
                                      /\ in_range(t)}
        cs == {t \in TransactionIds : /\ transactions[t].concert_order # NoLink
                                      /\ in_range(t)}
        workshop_gross == to_pounds(aggregate_sum(transactions, ws, "gross_amount"))
        workshop_fees == to_pounds(aggregate_sum(transactions, ws, "stripe_fee"))
        workshop_net == to_pounds(aggregate_sum(transactions, ws, "net_amount"))
        concert_gross == to_pounds(aggregate_sum(transactions, cs, "gross_amount"))
        concert_fees == to_pounds(aggregate_sum(transactions, cs, "stripe_fee"))
        concert_net == to_pounds(aggregate_sum(transactions, cs, "net_amount"))
    IN  [workshop_gross |-> workshop_gross, workshop_fees |-> workshop_fees,
         workshop_net |-> workshop_net, workshop_count |-> Cardinality(ws),
         concert_gross |-> concert_gross, concert_fees |-> concert_fees,
         concert_net |-> concert_net, concert_count |-> Cardinality(cs),
         total_gross |-> workshop_gross + concert_gross,
         total_fees |-> workshop_fees + concert_fees,
         total_net |-> workshop_net + concert_net]

\* FinanceService.get_income_summary(start_date, end_date), no event named
get_income_summary(start_date, end_date) ==
    LET in_range(t) == /\ date_of(transactions[t].transaction_date) >= start_date
                       /\ date_of(transactions[t].transaction_date) <= end_date
        ws == {t \in TransactionIds : /\ transactions[t].workshop_registration # NoLink
                                      /\ in_range(t)}
        cs == {t \in TransactionIds : /\ transactions[t].concert_order # NoLink
                                      /\ in_range(t)}
        workshop_gross == to_pounds(aggregate_sum(transactions, ws, "gross_amount"))
        workshop_fees == to_pounds(aggregate_sum(transactions, ws, "stripe_fee"))
        workshop_net == to_pounds(aggregate_sum(transactions, ws, "net_amount"))
        concert_gross == to_pounds(aggregate_sum(transactions, cs, "gross_amount"))
        concert_fees == to_pounds(aggregate_sum(transactions, cs, "stripe_fee"))
        concert_net == to_pounds(aggregate_sum(transactions, cs, "net_amount"))
    IN  [workshop_gross |-> workshop_gross, workshop_fees |-> workshop_fees,
         workshop_net |-> workshop_net, workshop_count |-> Cardinality(ws),
         concert_gross |-> concert_gross, concert_fees |-> concert_fees,
         concert_net |-> concert_net, concert_count |-> Cardinality(cs),
         total_gross |-> workshop_gross + concert_gross,
         total_fees |-> workshop_fees + concert_fees,
         total_net |-> workshop_net + concert_net]

\* get_expense_summary(start_date, end_date)['total']; Sum() or Decimal('0')
expense_total(start_date, end_date) ==
    LET es == {e \in DOMAIN expenses : /\ expenses[e].expense_date >= start_date
                                       /\ expenses[e].expense_date <= end_date}
        total == aggregate_sum(expenses, es, "amount")
    IN  IF total = NoTotal \/ total = 0 THEN 0 ELSE total

\* FinanceService.get_profit_summary
get_profit_summary(start_date, end_date) ==
    LET income == get_income_summary(start_date, end_date)
        total == expense_total(start_date, end_date)
    IN  [kind |-> "profit", income |-> income, expenses |-> total,
         net_profit |-> income.total_net - total,
         start_date |-> start_date, end_date |-> end_date]

\* views.py dashboard with a date range
dashboard(start_date, end_date) ==
    /\ report' = get_profit_summary(start_date, end_date)
    /\ UNCHANGED <<db, browsing, transactions, expenses, syncs, today, users>>

\* ================================================ expenses
\* Expense.clean
Expense_clean(w, c) == ~(w # NoLink /\ c # NoLink)

\* a form that validates nothing
form_unvalidated(w, c) == TRUE

\* ExpenseForm.is_valid: ExpenseForm.clean, then the model's clean through
\* ModelForm._post_clean
ExpenseForm_is_valid(w, c) ==
    /\ ~(w # NoLink /\ c # NoLink)
    /\ Expense_clean(w, c)

Expense(amount, expense_date, w, c) ==
    [amount |-> amount, expense_date |-> expense_date, workshop |-> w, concert |-> c]

\* what a POST of an expense form comes to
submitted(via, row, saved) ==
    [kind |-> "expense_form", via |-> via, workshop |-> row.workshop,
     concert |-> row.concert, saved |-> saved]

\* views.py expense_create, POST
expense_create(row) ==
    /\ Len(expenses) < MaxExpenses
    /\ IF ExpenseForm_is_valid(row.workshop, row.concert)
       THEN expenses' = Append(expenses, row) /\ report' = submitted("create", row, TRUE)
       ELSE UNCHANGED expenses /\ report' = submitted("create", row, FALSE)
    /\ UNCHANGED <<db, browsing, transactions, syncs, today, users>>

\* views.py expense_edit, POST
expense_edit(pk, row) ==
    /\ pk \in DOMAIN expenses
    /\ IF ExpenseForm_is_valid(row.workshop, row.concert)
       THEN expenses' = [expenses EXCEPT ![pk] = row] /\ report' = submitted("edit", row, TRUE)
       ELSE UNCHANGED expenses /\ report' = submitted("edit", row, FALSE)
    /\ UNCHANGED <<db, browsing, transactions, syncs, today, users>>

\* views.py expense_delete, POST
expense_delete(pk) ==
    /\ pk \in DOMAIN expenses
    /\ expenses' = [i \in 1..(Len(expenses) - 1) |->
                       IF i < pk THEN expenses[i] ELSE expenses[i + 1]]
    /\ UNCHANGED <<db, browsing, transactions, syncs, today, users, report>>

\* ExpenseAdmin add and change: the admin's ModelForm runs Expense.clean
admin_save_expense(pk, row) ==
    /\ IF pk \in DOMAIN expenses THEN TRUE
       ELSE pk = Len(expenses) + 1 /\ Len(expenses) < MaxExpenses
    /\ IF Expense_clean(row.workshop, row.concert)
       THEN /\ expenses' = IF pk \in DOMAIN expenses
                           THEN [expenses EXCEPT ![pk] = row]
                           ELSE Append(expenses, row)
            /\ report' = submitted("admin", row, TRUE)
       ELSE UNCHANGED expenses /\ report' = submitted("admin", row, FALSE)
    /\ UNCHANGED <<db, browsing, transactions, syncs, today, users>>

\* a page asks for the current tax year
tax_year_page ==
    /\ today # NoDate
    /\ report' = [kind |-> "tax_year", today |-> today,
                  start_date |-> get_uk_tax_year_dates(today)[1],
                  end_date |-> get_uk_tax_year_dates(today)[2]]
    /\ UNCHANGED <<db, browsing, transactions, expenses, syncs, today, users>>

\* ================================================ detail pages
\* concerts/views.py detail: the template is handed the concert and shows
\* its is_sold_out and tickets_remaining
concert_detail ==
    /\ concert.exists
    /\ page' = [rendered |-> TRUE, sold_out |-> is_sold_out(concert),
                remaining |-> tickets_remaining(concert)]
    /\ UNCHANGED <<db, staged, stripe, req, now, staffEdits>>

\* workshops/views.py detail: the template is handed the workshop and shows
\* its is_full and places_remaining
workshop_detail ==
    /\ workshop.exists
    /\ page' = [rendered |-> TRUE, sold_out |-> is_full(workshop),
                remaining |-> places_remaining(workshop)]
    /\ UNCHANGED <<db, staged, stripe, req, now, staffEdits>>

\* ================================================ initial states
NoEvent ==
    /\ orders = <<>>
    /\ regs = [u \in Buyers |-> NoRow]
    /\ staged = [b \in Buyers |-> NoSession]
    /\ stripe = <<>>
    /\ req = [r \in Requests |-> Idle]
    /\ now = 1
    /\ staffEdits = 0
    /\ page = NoPage
    /\ hist = [s \in Sessions |-> NoHist]
    /\ response = NoResponse
    /\ transactions = <<>>
    /\ expenses = <<>>
    /\ syncs = [k \in SyncRuns |-> NoRun]
    /\ today = NoDate
    /\ users = Buyers
    /\ report = NoReport
    /\ items = <<>>

InitConcert ==
    /\ concert \in [exists : {TRUE}, ticket_source : {"internal", "external"},
                    capacity : 1..MaxCapacity, tickets_sold : {0}]
    /\ workshop = NoWorkshop
    /\ NoEvent

InitWorkshop ==
    /\ concert = NoConcert
    /\ workshop \in [exists : {TRUE}, max_participants : 1..MaxCapacity,
                     current_registrations : {0}, legacy_bookings : 0..MaxLegacy]
    /\ NoEvent

Init == InitConcert \/ InitWorkshop

\* Any event the catalogue can hold: staff set ticket_source, capacity and
\* max_participants; the counters are whatever sales have made them.
InitCapacity ==
    /\ \/ /\ concert \in [exists : {TRUE}, ticket_source : TICKET_SOURCES,
                          capacity : {NoCapacity} \cup 0..MaxCount,
                          tickets_sold : 0..MaxCount]
          /\ workshop = NoWorkshop
       \/ /\ concert = NoConcert
          /\ workshop \in [exists : {TRUE}, max_participants : 0..MaxCount,
                           current_registrations : 0..MaxCount,
                           legacy_bookings : 0..MaxLegacy]
    /\ NoEvent

\* The books: an order and a registration the checkout flow has left paid,
\* with or without a payment intent; the other buyers come with the import.
LedgerRows == {NoRow} \cup [quantity : {1}, status : {"paid"},
                            stripe_checkout_session_id : {NoSid},
                            stripe_payment_intent_id : 0..MaxPi,
                            paid_at : {1, MaxTime}]
InitLedger ==
    /\ regs \in {rows \in [Buyers -> LedgerRows] : \A u \in Buyers : u > 1 => rows[u] = NoRow}
    /\ orders \in {<<>>} \cup {<<row>> : row \in LedgerRows \ {NoRow}}
    /\ concert = [exists |-> TRUE, ticket_source |-> "internal", capacity |-> MaxCount,
                  tickets_sold |-> Len(orders)]
    /\ workshop \in [exists : {TRUE}, max_participants : {MaxCount},
                     current_registrations : {confirmed_count(regs)},
                     legacy_bookings : {MaxLegacy}]
    /\ staged = [b \in Buyers |-> NoSession]
    /\ stripe = <<>>
    /\ req = [r \in Requests |-> Idle]
    /\ now = MaxTime
    /\ staffEdits = 0
    /\ page = NoPage
    /\ hist = [s \in Sessions |-> NoHist]
    /\ response = NoResponse
    /\ transactions = <<>>
    /\ expenses = <<>>
    /\ syncs = [k \in SyncRuns |-> NoRun]
    /\ today = NoDate
    /\ users = Buyers
    /\ report = NoReport
    /\ items = <<>>

\* The accounts: fee records of one registration and one order, as the sync
\* and the import leave them, and no expense yet.
AccountRows ==
    {StripeTransaction("workshop", 1, NoLink, p, NoBt, charged(p).amount, charged(p).fee,
                       charged(p).amount - charged(p).fee, t) : p \in 1..MaxPi, t \in 0..MaxTime}
    \cup
    {StripeTransaction("concert", NoLink, 1, p, p, charged(p).amount, charged(p).fee,
                       charged(p).amount - charged(p).fee, t) : p \in 1..MaxPi, t \in 0..MaxTime}
PaidRow == [quantity |-> 1, status |-> "paid", stripe_checkout_session_id |-> NoSid,
            stripe_payment_intent_id |-> NoPi, paid_at |-> 1]
InitAccounts ==
    /\ transactions \in {<<>>} \cup {<<a>> : a \in AccountRows}
          \cup {<<a, b>> : a \in {x \in AccountRows : x.transaction_type = "workshop"},
                           b \in {x \in AccountRows : x.transaction_type = "concert"}}
    /\ regs = [u \in Buyers |-> IF u = 1 THEN PaidRow ELSE NoRow]
    /\ orders = <<PaidRow>>
    /\ concert = [exists |-> TRUE, ticket_source |-> "internal", capacity |-> MaxCount,
                  tickets_sold |-> 1]
    /\ workshop = [exists |-> TRUE, max_participants |-> MaxCount,
                   current_registrations |-> 1, legacy_bookings |-> 0]
    /\ staged = [b \in Buyers |-> NoSession]
    /\ stripe = <<>>
    /\ req = [r \in Requests |-> Idle]
    /\ now = MaxTime
    /\ staffEdits = 0
    /\ page = NoPage
    /\ hist = [s \in Sessions |-> NoHist]
    /\ response = NoResponse
    /\ expenses = <<>>
    /\ syncs = [k \in SyncRuns |-> NoRun]
    /\ today = NoDate
    /\ users = Buyers
    /\ report = NoReport
    /\ items = <<>>

\* Any day of the calendar, nothing on the books.
InitTaxYear ==
    /\ today \in Dates
    /\ users = Buyers
    /\ concert = NoConcert
    /\ workshop = NoWorkshop
    /\ orders = <<>>
    /\ regs = [u \in Buyers |-> NoRow]
    /\ staged = [b \in Buyers |-> NoSession]
    /\ stripe = <<>>
    /\ req = [r \in Requests |-> Idle]
    /\ now = 1
    /\ staffEdits = 0
    /\ page = NoPage
    /\ hist = [s \in Sessions |-> NoHist]
    /\ response = NoResponse
    /\ transactions = <<>>
    /\ expenses = <<>>
    /\ syncs = [k \in SyncRuns |-> NoRun]
    /\ report = NoReport
    /\ items = <<>>

\* ================================================ history
Recorded(s) == [hist EXCEPT ![s].recorded = TRUE]
Delivered(s) == [hist EXCEPT ![s].delivered = Min(2, @ + 1)]

NextConcert ==
    \/ \E b \in Buyers, q \in 1..MaxQuantity, ok \in BOOLEAN :
          order_tickets(b, q, ok) /\ UNCHANGED <<history, finance>>
    \/ \E r \in Requests, b \in Buyers, s \in SessionIds \cup {NoSid}, ok \in BOOLEAN :
          c_success_begin(r, b, s, ok) /\ UNCHANGED <<history, finance>>
    \/ \E r \in Requests : c_success_check(r) /\ UNCHANGED <<history, finance>>
    \/ \E r \in Requests :
          /\ c_success_create(r)
          /\ hist' = IF orders' # orders THEN Recorded(req[r].sid) ELSE hist
          /\ UNCHANGED <<response, finance>>
    \/ \E r \in Requests : c_success_count(r) /\ UNCHANGED <<history, finance>>
    \/ \E r \in Requests : c_success_clear(r) /\ UNCHANGED <<history, finance>>
    \/ \E r \in Requests, s \in SessionIds, sigOk \in BOOLEAN, completed \in BOOLEAN :
          c_webhook_begin(r, s, sigOk, completed) /\ UNCHANGED <<history, finance>>
    \/ \E r \in Requests : c_webhook_save(r) /\ UNCHANGED <<history, finance>>
    \/ \E r \in Requests : c_webhook_read_concert(r) /\ UNCHANGED <<history, finance>>
    \/ \E r \in Requests : c_webhook_write_concert(r) /\ UNCHANGED <<history, finance>>
    \/ \E o \in OrderIds, st \in ORDER_STATUSES :
          staff_set_order_status(o, st) /\ UNCHANGED <<history, finance>>

NextWorkshop ==
    \/ \E b \in Buyers, ok \in BOOLEAN : register(b, ok) /\ UNCHANGED <<history, finance>>
    \/ \E r \in Requests, b \in Buyers, s \in SessionIds \cup {NoSid}, ok \in BOOLEAN :
          w_success_begin(r, b, s, ok) /\ UNCHANGED <<history, finance>>
    \/ \E r \in Requests : w_success_check(r) /\ UNCHANGED <<history, finance>>
    \/ \E r \in Requests :
          /\ w_success_update(r)
          /\ hist' = Recorded(req[r].sid)
          /\ UNCHANGED <<response, finance>>
    \/ \E r \in Requests :
          /\ w_success_create(r)
          /\ hist' = IF regs' # regs THEN Recorded(req[r].sid) ELSE hist
          /\ UNCHANGED <<response, finance>>
    \/ \E r \in Requests : w_success_clear(r) /\ UNCHANGED <<history, finance>>
    \/ \E r \in Requests, s \in SessionIds, sigOk \in BOOLEAN, completed \in BOOLEAN :
          w_webhook_begin(r, s, sigOk, completed) /\ UNCHANGED <<history, finance>>
    \/ \E r \in Requests : w_webhook_save(r) /\ UNCHANGED <<history, finance>>
    \/ \E r \in Requests, b \in Buyers, confirm \in BOOLEAN,
          daysLeft \in {REFUND_DAYS - 1, REFUND_DAYS}, ok \in BOOLEAN :
          cancel_begin(r, b, confirm, daysLeft, ok) /\ UNCHANGED <<history, finance>>
    \/ \E r \in Requests : cancel_save(r) /\ UNCHANGED <<history, finance>>
    \/ \E u \in Buyers, st \in {"pending"} :
          staff_add_registration(u, st) /\ UNCHANGED <<history, finance>>
    \/ \E u \in Buyers, st \in {"pending", "cancelled"} :
          staff_set_registration_status(u, st) /\ UNCHANGED <<history, finance>>
    \/ \E u \in Buyers : staff_delete_registration(u) /\ UNCHANGED <<history, finance>>

Next ==
    \/ \E s \in SessionIds : Pay(s) /\ UNCHANGED <<history, finance>>
    \/ NextConcert
    \/ NextWorkshop

Spec == Init /\ [][Next]_vars

\* The buyers never come back from the payment page: orders and registrations
\* are started and paid, Stripe delivers its events, staff add registrations.
\* No order row exists here, so the concert webhook's look-up finds nothing
\* and the handler ends with its first step.
NextNoReturn ==
    \/ \E s \in SessionIds : Pay(s) /\ UNCHANGED <<history, finance>>
    \/ \E b \in Buyers, q \in 1..MaxQuantity, ok \in BOOLEAN :
          order_tickets(b, q, ok) /\ UNCHANGED <<history, finance>>
    \/ \E b \in Buyers, ok \in BOOLEAN : register(b, ok) /\ UNCHANGED <<history, finance>>
    \/ \E r \in Requests, s \in SessionIds, sigOk \in BOOLEAN, completed \in BOOLEAN :
          /\ c_webhook_begin(r, s, sigOk, completed)
          /\ hist' = IF sigOk /\ completed THEN Delivered(s) ELSE hist
          /\ UNCHANGED <<response, finance>>
    \/ \E r \in Requests, s \in SessionIds, sigOk \in BOOLEAN, completed \in BOOLEAN :
          /\ w_webhook_begin(r, s, sigOk, completed)
          /\ hist' = IF sigOk /\ completed THEN Delivered(s) ELSE hist
          /\ UNCHANGED <<response, finance>>
    \/ \E r \in Requests : w_webhook_save(r) /\ UNCHANGED <<history, finance>>
    \/ \E u \in Buyers, st \in {"pending"} :
          staff_add_registration(u, st) /\ UNCHANGED <<history, finance>>

SpecNoReturn == Init /\ [][NextNoReturn]_vars

\* A concert with room for every order: buyers start orders, pay and come
\* back from the payment page, one return at a time.
InitReturn ==
    /\ concert = [exists |-> TRUE, ticket_source |-> "internal", capacity |-> MaxCount,
                  tickets_sold |-> 0]
    /\ workshop = NoWorkshop
    /\ NoEvent

NextReturn ==
    \/ \E s \in SessionIds : Pay(s) /\ UNCHANGED <<history, finance>>
    \/ \E b \in Buyers, q \in 1..MaxQuantity, ok \in BOOLEAN :
          order_tickets(b, q, ok) /\ UNCHANGED <<history, finance>>
    \/ \E b \in Buyers, s \in SessionIds \cup {NoSid}, ok \in BOOLEAN :
          c_success_begin(1, b, s, ok) /\ UNCHANGED <<history, finance>>
    \/ \E r \in Requests : c_success_check(r) /\ UNCHANGED <<history, finance>>
    \/ \E r \in Requests :
          /\ c_success_create(r)
          /\ hist' = IF orders' # orders THEN Recorded(req[r].sid) ELSE hist
          /\ UNCHANGED <<response, finance>>
    \/ \E r \in Requests : c_success_count(r) /\ UNCHANGED <<history, finance>>
    \/ \E r \in Requests : c_success_clear(r) /\ UNCHANGED <<history, finance>>

SpecReturn == InitReturn /\ [][NextReturn]_vars

\* The webhook endpoints and everything Stripe can deliver to them: events
\* for this site's own checkout sessions, and events whose metadata is
\* missing, unknown or malformed.
NextWebhook ==
    \/ \E s \in SessionIds : Pay(s) /\ UNCHANGED <<history, finance>>
    \/ \E b \in Buyers, q \in 1..MaxQuantity, ok \in BOOLEAN :
          order_tickets(b, q, ok) /\ UNCHANGED <<history, finance>>
    \/ \E b \in Buyers, ok \in BOOLEAN : register(b, ok) /\ UNCHANGED <<history, finance>>
    \/ \E u \in Buyers, st \in {"pending"} :
          staff_add_registration(u, st) /\ UNCHANGED <<history, finance>>
    \/ \E r \in Requests, s \in SessionIds, sigOk \in BOOLEAN, completed \in BOOLEAN :
          /\ c_webhook_begin(r, s, sigOk, completed)
          /\ response' = Responded(sigOk, c_webhook_status(sigOk, completed, "valid"))
          /\ UNCHANGED <<hist, finance>>
    \/ \E sigOk \in BOOLEAN, completed \in BOOLEAN, cid \in METADATA_IDS \ {"valid"} :
          /\ concert.exists
          /\ webhook_unmatched
          /\ response' = Responded(sigOk, c_webhook_status(sigOk, completed, cid))
          /\ UNCHANGED <<hist, finance>>
    \/ \E r \in Requests, s \in SessionIds, sigOk \in BOOLEAN, completed \in BOOLEAN :
          /\ w_webhook_begin(r, s, sigOk, completed)
          /\ response' = Responded(sigOk, w_webhook_status(sigOk, completed,
                                                           "valid", "valid"))
          /\ UNCHANGED <<hist, finance>>
    \/ \E sigOk \in BOOLEAN, completed \in BOOLEAN,
          wid \in METADATA_IDS, uid \in METADATA_IDS :
          /\ workshop.exists
          /\ wid # "valid" \/ uid # "valid"
          /\ webhook_unmatched
          /\ response' = Responded(sigOk, w_webhook_status(sigOk, completed, wid, uid))
          /\ UNCHANGED <<hist, finance>>
    \/ \E r \in Requests : w_webhook_save(r) /\ UNCHANGED <<history, finance>>

SpecWebhook == Init /\ [][NextWebhook]_vars

\* The fee sync, run by cron and by hand, and the legacy import.
NextLedger ==
    \/ \E k \in SyncRuns, force \in BOOLEAN, all \in BOOLEAN, dry_run \in BOOLEAN,
          days \in 1..MaxDays :
          sync_begin(k, force, all, dry_run, days)
    \/ \E k \in SyncRuns, outcome \in {"ok", "no_charge", "no_balance_transaction", "error"} :
          sync_retrieve(k, outcome)
    \/ \E k \in SyncRuns : sync_write(k)
    \/ \E rows \in CleanFiles, dry_run \in BOOLEAN :
          import_legacy_bookings(rows, dry_run) /\ UNCHANGED report

SpecLedger == InitLedger /\ [][NextLedger]_vars

\* The legacy import, run on any file against any workshop: buyers with and
\* without an account, registered or not, and any legacy count.
InitImport ==
    /\ regs \in [Buyers -> {NoRow, PaidRow, [PaidRow EXCEPT !.status = "cancelled"]}]
    /\ users \in {us \in SUBSET Buyers : \A u \in Buyers : regs[u] # NoRow => u \in us}
    /\ workshop \in [exists : {TRUE}, max_participants : {MaxCount},
                     current_registrations : {confirmed_count(regs)},
                     legacy_bookings : 0..MaxLegacy]
    /\ concert = NoConcert
    /\ orders = <<>>
    /\ staged = [b \in Buyers |-> NoSession]
    /\ stripe = <<>>
    /\ req = [r \in Requests |-> Idle]
    /\ now = MaxTime
    /\ staffEdits = 0
    /\ page = NoPage
    /\ hist = [s \in Sessions |-> NoHist]
    /\ response = NoResponse
    /\ transactions = <<>>
    /\ expenses = <<>>
    /\ syncs = [k \in SyncRuns |-> NoRun]
    /\ today = NoDate
    /\ report = NoReport
    /\ items = <<>>

NextImport ==
    \E rows \in CsvFiles, dry_run \in BOOLEAN :
        /\ import_legacy_bookings(rows, dry_run)
        /\ report' = import_output(rows, dry_run)

SpecImport == InitImport /\ [][NextImport]_vars

\* The concert checkout followed by the fee sync: buyers order, pay and
\* return, and staff run sync_stripe_fees --all while no request is in
\* flight; no purchase starts while the sync runs.  One registration has been
\* left paid, with its payment intent, by the workshop success return.
InitFees ==
    /\ concert = [exists |-> TRUE, ticket_source |-> "internal", capacity |-> MaxCount,
                  tickets_sold |-> 0]
    /\ orders = <<>>
    /\ regs = [u \in Buyers |-> IF u = 1
                                THEN [PaidRow EXCEPT !.stripe_payment_intent_id = MaxPi]
                                ELSE NoRow]
    /\ workshop = [exists |-> TRUE, max_participants |-> MaxCount,
                   current_registrations |-> confirmed_count(regs),
                   legacy_bookings |-> 0]
    /\ staged = [b \in Buyers |-> NoSession]
    /\ stripe = <<>>
    /\ req = [r \in Requests |-> Idle]
    /\ now = 1
    /\ staffEdits = 0
    /\ page = NoPage
    /\ hist = [s \in Sessions |-> NoHist]
    /\ response = NoResponse
    /\ transactions = <<>>
    /\ expenses = <<>>
    /\ syncs = [k \in SyncRuns |-> NoRun]
    /\ today = NoDate
    /\ users = Buyers
    /\ report = NoReport
    /\ items = <<>>

NextFees ==
    \/ \E s \in SessionIds : Pay(s) /\ UNCHANGED <<history, finance>>
    \/ \E b \in Buyers, q \in 1..MaxQuantity, ok \in BOOLEAN :
          /\ syncs[1].pc = "idle"
          /\ order_tickets(b, q, ok)
          /\ UNCHANGED <<history, finance>>
    \/ \E b \in Buyers, s \in SessionIds \cup {NoSid}, ok \in BOOLEAN :
          /\ syncs[1].pc = "idle"
          /\ c_success_begin(1, b, s, ok)
          /\ UNCHANGED <<history, finance>>
    \/ \E r \in Requests : c_success_check(r) /\ UNCHANGED <<history, finance>>
    \/ \E r \in Requests :
          /\ c_success_create(r)
          /\ hist' = IF orders' # orders THEN Recorded(req[r].sid) ELSE hist
          /\ UNCHANGED <<response, finance>>
    \/ \E r \in Requests : c_success_count(r) /\ UNCHANGED <<history, finance>>
    \/ \E r \in Requests : c_success_clear(r) /\ UNCHANGED <<history, finance>>
    \/ AllIdle /\ sync_begin(1, FALSE, TRUE, FALSE, MaxDays)
    \/ \E outcome \in {"ok", "no_charge", "no_balance_transaction", "error"} :
          sync_retrieve(1, outcome)
    \/ sync_write(1)

SpecFees == InitFees /\ [][NextFees]_vars

\* Self-service cancellation of registrations the checkout flow has left
\* paid: by the success return (with the payment intent) or by the webhook
\* (without it).  Every buyer has paid one checkout session.  Staff delete
\* registrations in the admin.  The workshop takes place on day WorkshopDay and no day passes while cancellations are
\* in flight.
WorkshopDay == REFUND_DAYS + 1

\* cancel_registration, line 434: (workshop.date - timezone.now().date()).days
days_until_workshop == WorkshopDay - now

CancelRows(b) ==
    {NoRow,
     [NoRow EXCEPT !.quantity = 1, !.status = "paid", !.paid_at = 1,
                   !.stripe_checkout_session_id = b,
                   !.stripe_payment_intent_id = payment_intent(b)],
     [NoRow EXCEPT !.quantity = 1, !.status = "paid", !.paid_at = 1,
                   !.stripe_checkout_session_id = b]}

InitCancel ==
    /\ concert = NoConcert
    /\ orders = <<>>
    /\ regs \in {f \in [Buyers -> UNION {CancelRows(b) : b \in Buyers}] :
                    \A b \in Buyers : f[b] \in CancelRows(b)}
    /\ workshop = [exists |-> TRUE, max_participants |-> MaxCount,
                   current_registrations |-> confirmed_count(regs),
                   legacy_bookings |-> 0]
    /\ staged = [b \in Buyers |-> NoSession]
    /\ stripe = [b \in Buyers |-> [type |-> "workshop", buyer |-> b, quantity |-> 1,
                                    payment_status |-> "paid", refunds |-> 0]]
    /\ req = [r \in Requests |-> Idle]
    /\ now \in 1..2
    /\ staffEdits = 0
    /\ page = NoPage
    /\ hist = [s \in Sessions |-> NoHist]
    /\ response = NoResponse
    /\ transactions = <<>>
    /\ expenses = <<>>
    /\ syncs = [k \in SyncRuns |-> NoRun]
    /\ today = NoDate
    /\ users = Buyers
    /\ report = NoReport
    /\ items = <<>>

\* stripe.Refund.create has been called for payment intent p
RefundRequested(p) == [hist EXCEPT ![p].refund_requests = Min(2, @ + 1)]

NextCancel ==
    \/ \E r \in Requests, b \in Buyers, confirm \in BOOLEAN, ok \in BOOLEAN :
          /\ cancel_begin(r, b, confirm, days_until_workshop, ok)
          /\ hist' = IF refund_due(b, days_until_workshop)
                     THEN RefundRequested(regs[b].stripe_payment_intent_id)
                     ELSE hist
          /\ UNCHANGED <<response, finance>>
    \/ \E r \in Requests : cancel_save(r) /\ UNCHANGED <<history, finance>>
    \/ \E u \in Buyers : staff_delete_registration(u) /\ UNCHANGED <<history, finance>>

SpecCancel == InitCancel /\ [][NextCancel]_vars

\* ================================================ repertoire/views.py
\* ProgrammeItem rows of one programme, by primary key; the database never
\* gives a key twice, so a deleted row keeps its place here as NoOrder.
NoOrder == -1
ItemPks == {pk \in 1..Len(items) : items[pk] # NoOrder}

\* programme.items.aggregate(Max('order'))['max_order'] or 0
max_order ==
    IF ItemPks = {} THEN 0
    ELSE CHOOSE m \in {items[pk] : pk \in ItemPks} :
             \A pk \in ItemPks : items[pk] <= m

\* programme_add_item, lines 277-303: the new item goes after the last one
programme_add_item ==
    /\ Len(items) < MaxItems
    /\ items' = Append(items, max_order + 1)
    /\ UNCHANGED <<db, staged, stripe, req, now, staffEdits, page, history,
                   transactions, expenses, syncs, today, users, report>>

\* lines 328-329, from position index on: every id of the list sets the order
\* of the item with that key, if the programme has one, to its position in
\* the list, counted from 0
RECURSIVE reordered(_, _, _)
reordered(rows, item_ids, index) ==
    IF index >= Len(item_ids) THEN rows
    ELSE LET item_id == item_ids[index + 1]
         IN  reordered(IF item_id \in 1..Len(rows) /\ rows[item_id] # NoOrder
                       THEN [rows EXCEPT ![item_id] = index]
                       ELSE rows,
                       item_ids, index + 1)

\* programme_reorder, lines 320-339
programme_reorder(item_ids) ==
    /\ items' = reordered(items, item_ids, 0)
    /\ UNCHANGED <<db, staged, stripe, req, now, staffEdits, page, history,
                   transactions, expenses, syncs, today, users, report>>

\* programme_item_delete, lines 384-389
programme_item_delete(pk) ==
    /\ pk \in ItemPks
    /\ items' = [items EXCEPT ![pk] = NoOrder]
    /\ UNCHANGED <<db, staged, stripe, req, now, staffEdits, page, history,
                   transactions, expenses, syncs, today, users, report>>

\* the lists of item ids a request body can hold: complete or partial, with
\* repeated ids and with ids of no item of the programme
ItemIdLists == UNION {[1..n -> 1..(MaxItems + 1)] : n \in 0..MaxItems}

InitProgramme ==
    /\ concert = NoConcert
    /\ workshop = NoWorkshop
    /\ NoEvent

NextProgramme ==
    \/ programme_add_item
    \/ \E item_ids \in ItemIdLists : programme_reorder(item_ids)
    \/ \E pk \in 1..MaxItems : programme_item_delete(pk)

SpecProgramme == InitProgramme /\ [][NextProgramme]_vars

\* The staff's finance pages.
ExpenseInputs == {Expense(MaxAmount + 1, d, w, c) :
                     d \in 0..date_of(MaxTime), w \in {NoLink, 1}, c \in {NoLink, 1}}
NextAccounts ==
    \/ \E row \in ExpenseInputs : expense_create(row)
    \/ \E pk \in 1..MaxExpenses, row \in ExpenseInputs : expense_edit(pk, row)
    \/ \E pk \in 1..MaxExpenses : expense_delete(pk)
    \/ \E pk \in 1..MaxExpenses, row \in ExpenseInputs : admin_save_expense(pk, row)
    \/ \E start_date \in 0..date_of(MaxTime), end_date \in 0..date_of(MaxTime) :
          dashboard(start_date, end_date)

SpecAccounts == InitAccounts /\ [][NextAccounts]_vars

NextTaxYear == tax_year_page

SpecTaxYear == InitTaxYear /\ [][NextTaxYear]_vars

\* The detail pages of every event the catalogue can hold.
NextCapacity ==
    \/ concert_detail /\ UNCHANGED <<history, finance>>
    \/ workshop_detail /\ UNCHANGED <<history, finance>>

SpecCapacity == InitCapacity /\ [][NextCapacity]_vars

\* ================================================ properties

\* the paid ledger rows of a checkout session
paid_orders(s) == {o \in OrderIds : /\ orders[o].stripe_checkout_session_id = s
                                    /\ orders[o].status = "paid"}
paid_regs(s) == {u \in Buyers : /\ regs[u].stripe_checkout_session_id = s
                                /\ regs[u].status = "paid"}
paid_rows(s) == Cardinality(paid_orders(s)) + Cardinality(paid_regs(s))

\* the confirmed counter of the event a checkout session belongs to
confirmed_counter(s) ==
    IF stripe[s].type = "concert" THEN concert.tickets_sold
    ELSE workshop.current_registrations

\* sum of quantity over the first n orders whose status is paid
RECURSIVE paid_quantity(_)
paid_quantity(n) ==
    IF n = 0 THEN 0
    ELSE (IF orders[n].status = "paid" THEN orders[n].quantity ELSE 0) + paid_quantity(n - 1)

\* C1: once checkout.session.completed has been delivered twice for a session
\* and both deliveries have been handled, exactly one paid ledger row exists
\* for that session and the event's confirmed counter has grown by the
\* purchase.
C1_TwoDeliveriesOnePaidRow ==
    \A s \in SessionIds :
        (hist[s].delivered = 2 /\ AllIdle) =>
            /\ paid_rows(s) = 1
            /\ confirmed_counter(s) >= stripe[s].quantity

\* C2: a success return with a session id whose purchase an earlier success
\* return has recorded changes no ledger row and no counter in any of its
\* steps.
C2_SecondReturnNoOp ==
    [][\A r \in Requests :
          (req[r].replay /\ req'[r] # req[r]) =>
              /\ orders' = orders
              /\ regs' = regs
              /\ concert' = concert
              /\ workshop' = workshop]_vars

\* C3: when the webhook and the success return race for one session, the row
\* is moved to paid once: the handler that comes second finds the
\* registration already paid for the session by the other handler (the
\* success return stores the payment intent, the webhook does not) and writes
\* nothing, so no field changes and paid_at is not stamped again.
C3_SecondHandlerWritesNothing ==
    [][\A r \in Requests :
          (/\ req[r].h \in {"w_success", "w_webhook"}
           /\ req[r].pc \in {"create", "update", "save"}
           /\ req'[r] # req[r]
           /\ regs[req[r].data].status = "paid"
           /\ regs[req[r].data].stripe_checkout_session_id = req[r].sid
           /\ (req[r].h = "w_success") <=>
                  (regs[req[r].data].stripe_payment_intent_id = NoPi))
          => /\ regs' = regs
             /\ workshop' = workshop]_vars

\* C4: once the webhook for a paid session has been delivered and handled, a
\* paid ledger row for the purchase exists although the buyer has not
\* returned.
C4_DeliveryYieldsPaidRow ==
    \A s \in SessionIds :
        (hist[s].delivered >= 1 /\ AllIdle) => paid_rows(s) >= 1

\* C5: at most one ConcertTicketOrder carries a given checkout session id.
C5_OneOrderPerSession ==
    \A s \in SessionIds : Cardinality(orders_with_session(s)) <= 1

\* C6: the success handlers act only on a session Stripe reports as paid:
\* every success request past its verification, and every ledger row that
\* carries a checkout session id, refers to a session whose payment_status is
\* 'paid'.
C6_OnlyPaidSessionsRecorded ==
    /\ \A r \in Requests :
          req[r].h \in {"c_success", "w_success"} =>
              /\ req[r].sid \in SessionIds
              /\ stripe[req[r].sid].payment_status = "paid"
    /\ \A o \in OrderIds :
          orders[o].stripe_checkout_session_id # NoSid =>
              stripe[orders[o].stripe_checkout_session_id].payment_status = "paid"
    /\ \A u \in Buyers :
          regs[u].stripe_checkout_session_id # NoSid =>
              stripe[regs[u].stripe_checkout_session_id].payment_status = "paid"

\* a purchase has been recorded while another session is still unpaid, has
\* no row, and a buyer's staged data is still in place
C6_Witness ==
    /\ AllIdle
    /\ \E s1 \in SessionIds, s2 \in SessionIds :
          /\ stripe[s1].payment_status = "unpaid"
          /\ orders_with_session(s1) = {}
          /\ \A u \in Buyers : regs[u].stripe_checkout_session_id # s1
          /\ paid_rows(s2) = 1
    /\ \E b \in Buyers : staged[b] # NoSession

\* C7: when no request is in flight, Workshop.current_registrations is the
\* number of registrations whose status is paid or attended.
C7_CountMatchesRegistrations ==
    (AllIdle /\ workshop.exists) =>
        workshop.current_registrations = confirmed_count(regs)

\* C8: when no request is in flight, Concert.tickets_sold is the sum of
\* quantity over the orders whose status is paid.
C8_SoldMatchesPaidOrders ==
    (AllIdle /\ concert.exists) =>
        concert.tickets_sold = paid_quantity(Len(orders))

\* C9: the paid transition of the success handlers does not look at the
\* capacity: the create step of a concert success request always adds a paid
\* order, and the create or update step of a workshop success request always
\* leaves the registration paid (unless the row exists already and the insert
\* is refused).
C9_PaidTransitionIgnoresCapacity ==
    [][\A r \in Requests :
          /\ (req[r].h = "c_success" /\ req[r].pc = "create" /\ req'[r] # req[r]) =>
                /\ Len(orders') = Len(orders) + 1
                /\ orders'[Len(orders')].status = "paid"
          /\ (/\ req[r].h = "w_success"
              /\ req[r].pc \in {"create", "update"}
              /\ req'[r] # req[r]) =>
                \/ regs'[req[r].data].status = "paid"
                \/ req[r].pc = "create" /\ regs[req[r].data].status # "none"]_vars

\* two paid orders are on record for a concert of smaller capacity
C9_Oversold ==
    /\ AllIdle
    /\ concert.exists
    /\ Cardinality({o \in OrderIds : orders[o].status = "paid"}) >= 2
    /\ concert.tickets_sold > concert.capacity

\* C10 as stated: remaining is max(0, capacity - confirmed count), and the
\* sold-out predicate holds exactly when the capacity is set and the confirmed
\* count has reached it, for every ticket source and capacity.
C10_AsStated ==
    page.rendered =>
        /\ concert.exists =>
              /\ concert.capacity # NoCapacity =>
                    page.remaining = Max(0, concert.capacity - concert.tickets_sold)
              /\ page.sold_out <=> (/\ concert.capacity # NoCapacity
                                    /\ concert.tickets_sold >= concert.capacity)
        /\ workshop.exists =>
              /\ page.remaining =
                    Max(0, workshop.max_participants - workshop.current_registrations)
              /\ page.sold_out <=>
                    workshop.current_registrations >= workshop.max_participants

\* C10: a concert sold internally with a positive capacity shows
\* max(0, capacity - tickets_sold) remaining and is sold out exactly when
\* tickets_sold >= capacity; with any other ticket source, or a capacity
\* unset or 0, it is never sold out and shows no remaining count; a workshop
\* shows max(0, max_participants - (current_registrations + legacy_bookings))
\* and is full exactly when current_registrations + legacy_bookings >=
\* max_participants.
C10_Capacity ==
    page.rendered =>
        /\ concert.exists =>
              IF concert.ticket_source = "internal" /\ concert.capacity > 0
              THEN /\ page.remaining = Max(0, concert.capacity - concert.tickets_sold)
                   /\ page.sold_out <=> concert.tickets_sold >= concert.capacity
              ELSE /\ page.remaining = NoCapacity
                   /\ ~page.sold_out
        /\ workshop.exists =>
              /\ page.remaining =
                    Max(0, workshop.max_participants
                           - (workshop.current_registrations + workshop.legacy_bookings))
              /\ page.sold_out <=>
                    (workshop.current_registrations + workshop.legacy_bookings
                        >= workshop.max_participants)

\* the page of a concert sold elsewhere whose counter has reached its capacity
C10_Witness ==
    /\ page.rendered
    /\ concert.exists
    /\ concert.ticket_source = "external"
    /\ concert.capacity = 1
    /\ concert.tickets_sold = 1
    /\ ~page.sold_out

C12_RejectedOrderWritesNothing ==
    [][concert.exists =>
          /\ \A b \in Buyers :
                (/\ staged'[b].concert_order # staged[b].concert_order
                 /\ staged'[b].concert_order # NoData)
                => /\ concert.ticket_source = "internal"
                   /\ concert.tickets_sold < concert.capacity
                   /\ staged'[b].concert_order <= concert.capacity - concert.tickets_sold
                   /\ db' = db
          /\ Len(stripe') > Len(stripe)
                => /\ concert.ticket_source = "internal"
                   /\ concert.tickets_sold < concert.capacity
                   /\ stripe'[Len(stripe')].quantity
                         <= concert.capacity - concert.tickets_sold
                   /\ db' = db]_vars

\* a sold-out concert with an order on record and nothing staged
C12_Witness ==
    /\ AllIdle
    /\ concert.exists
    /\ concert.tickets_sold >= concert.capacity
    /\ Len(orders) >= 1
    /\ \A b \in Buyers : staged[b] = NoSession

\* C13: a failed Stripe call leaves the ledger alone.  A step that stages a
\* purchase without a checkout session being opened (the session creation
\* failed) changes no row and no counter, and a registration with a payment
\* intent moves from paid to refunded only when Stripe holds a refund for it
\* (a failed refund leaves it paid).
C13_StripeFailureLeavesLedger ==
    [][/\ (/\ Len(stripe') = Len(stripe)
           /\ \E b \in Buyers :
                 \/ staged'[b].concert_order \notin {staged[b].concert_order, NoData}
                 \/ staged'[b].workshop_registration
                       \notin {staged[b].workshop_registration, NoData})
          => db' = db
       /\ \A u \in Buyers :
             (/\ regs[u].status = "paid"
              /\ regs'[u].status = "refunded"
              /\ regs'[u].stripe_payment_intent_id # NoPi)
             => stripe'[regs'[u].stripe_payment_intent_id].refunds >= 1]_vars

\* purchases have been staged, Stripe has opened no session, and the ledger
\* is empty
C13_Witness ==
    /\ stripe = <<>>
    /\ \E b \in Buyers : staged[b] # NoSession
    /\ orders = <<>>
    /\ \A u \in Buyers : regs[u] = NoRow

\* C14: a success return for a paid session whose browser session holds no
\* staged data for the event ends at its look-up: the request is over, and no
\* row, no counter and no staged data has changed.
C14_NoStagedDataNoRecord ==
    [][\A r \in Requests :
          (/\ req[r].h \in {"c_success", "w_success"}
           /\ req[r].pc = "check"
           /\ req[r].data = NoData
           /\ req'[r] # req[r])
          => /\ req'[r] = Idle
             /\ db' = db
             /\ staged' = staged]_vars

\* a concert success request for a paid session has found no staged order,
\* and no order carries the session id
C14_Witness ==
    \E r \in Requests :
        /\ req[r].h = "c_success"
        /\ req[r].pc = "check"
        /\ req[r].data = NoData
        /\ stripe[req[r].sid].payment_status = "paid"
        /\ orders_with_session(req[r].sid) = {}

\* C15: every webhook response is 400 when the signature check failed and
\* 200 otherwise.
C15_WebhookAnswers200Or400 ==
    response.sent => response.status = (IF response.sigOk THEN 200 ELSE 400)

\* C16: after any fee-sync runs and legacy imports, every registration and
\* every order has at most one StripeTransaction, and every StripeTransaction
\* is linked to exactly one existing ledger row, never to both kinds and
\* never to none.
C16_OneTransactionPerRow ==
    /\ \A u \in Buyers : Cardinality(transactions_of("workshop", u)) <= 1
    /\ \A o \in OrderIds : Cardinality(transactions_of("concert", o)) <= 1
    /\ \A t \in TransactionIds :
          LET u == transactions[t].workshop_registration
              o == transactions[t].concert_order
          IN  /\ (u # NoLink) # (o # NoLink)
              /\ u # NoLink => u \in Buyers /\ regs[u].status # "none"
              /\ o # NoLink => o \in OrderIds

\* an imported and a synced transaction are on the books, a paid row has
\* none, and a --force run is about to rewrite a transaction it found
C16_Witness ==
    /\ \E t \in TransactionIds : /\ transactions[t].workshop_registration # NoLink
                                 /\ transactions[t].balance_transaction_id = NoBt
    /\ \E t \in TransactionIds : /\ transactions[t].concert_order # NoLink
                                 /\ transactions[t].balance_transaction_id # NoBt
    /\ \E u \in Buyers : regs[u].status = "paid" /\ transactions_of("workshop", u) = {}
    /\ \E k \in SyncRuns : /\ syncs[k].pc = "write"
                           /\ syncs[k].existing # 0
                           /\ syncs[k].force

\* C17: every StripeTransaction written by the sync or the import holds
\* whole non-negative pence with gross_amount - stripe_fee = net_amount.
C17_GrossLessFeeIsNet ==
    \A t \in TransactionIds :
        /\ transactions[t].gross_amount \in Nat
        /\ transactions[t].stripe_fee \in Nat
        /\ transactions[t].net_amount \in Nat
        /\ transactions[t].gross_amount - transactions[t].stripe_fee
              = transactions[t].net_amount

\* an imported transaction with a fee next to one the sync wrote with a fee
C17_Witness ==
    /\ \E t \in TransactionIds : /\ transactions[t].balance_transaction_id = NoBt
                                 /\ transactions[t].stripe_fee > 0
    /\ \E t \in TransactionIds : /\ transactions[t].balance_transaction_id # NoBt
                                 /\ transactions[t].stripe_fee > 0

\* C19: on every day d the current tax year is (6 April Y, 5 April Y+1) with
\* Y = d.year - 1 before 6 April and d.year from 6 April on, the range holds
\* d, 2025-04-05 gives 2024-04-06..2025-04-05 and 2025-04-06 gives
\* 2025-04-06..2026-04-05.
C19_TaxYearHoldsToday ==
    report.kind = "tax_year" =>
        LET d == report.today
            lo == report.start_date
            hi == report.end_date
            ord(x) == (x.year * 12 + x.month) * 31 + x.day
        IN  /\ lo.month = 4 /\ lo.day = 6
            /\ hi.month = 4 /\ hi.day = 5
            /\ hi.year = lo.year + 1
            /\ lo.year \in {d.year - 1, d.year}
            /\ ord(lo) <= ord(d) /\ ord(d) <= ord(hi)
            /\ d = date(2025, 4, 5) => lo = date(2024, 4, 6) /\ hi = date(2025, 4, 5)
            /\ d = date(2025, 4, 6) => lo = date(2025, 4, 6) /\ hi = date(2026, 4, 5)

\* the tax year was asked for on 6 April 2025
C19_Witness ==
    /\ report.kind = "tax_year"
    /\ report.today = date(2025, 4, 6)

\* C18: for every date range, the income summary's gross, fees, net and
\* count of each stream are the sums and the count over the transactions
\* linked to that stream and dated within the range, both end days
\* included; the combined totals are the sums over all transactions dated
\* within the range, each once; and net_profit is that net total less the
\* expenses dated within the range.
C18_SummaryAddsUp ==
    [][(report' # report /\ report'.kind = "profit") =>
        LET r == report'
            within(t) == /\ r.start_date * TicksPerDay <= t
                         /\ t < (r.end_date + 1) * TicksPerDay
            dated == {t \in TransactionIds : within(transactions[t].transaction_date)}
            ws == {t \in dated : transactions[t].transaction_type = "workshop"}
            cs == {t \in dated : transactions[t].transaction_type = "concert"}
            es == {e \in DOMAIN expenses : expenses[e].expense_date \in r.start_date..r.end_date}
        IN  /\ r.income.workshop_gross = column_sum(transactions, ws, "gross_amount")
            /\ r.income.workshop_fees = column_sum(transactions, ws, "stripe_fee")
            /\ r.income.workshop_net = column_sum(transactions, ws, "net_amount")
            /\ r.income.workshop_count = Cardinality(ws)
            /\ r.income.concert_gross = column_sum(transactions, cs, "gross_amount")
            /\ r.income.concert_fees = column_sum(transactions, cs, "stripe_fee")
            /\ r.income.concert_net = column_sum(transactions, cs, "net_amount")
            /\ r.income.concert_count = Cardinality(cs)
            /\ r.income.total_gross = column_sum(transactions, dated, "gross_amount")
            /\ r.income.total_fees = column_sum(transactions, dated, "stripe_fee")
            /\ r.income.total_net = column_sum(transactions, dated, "net_amount")
            /\ r.net_profit = column_sum(transactions, dated, "net_amount")
                                 - column_sum(expenses, es, "amount")
      ]_vars

\* a summary of a range with expenses in it, whose last day holds an
\* afternoon payment that is counted, next to a payment outside the range
C18_Witness ==
    /\ report.kind = "profit"
    /\ report.expenses > 0
    /\ Len(transactions) = 2
    /\ report.income.workshop_count + report.income.concert_count = 1
    /\ \E t \in TransactionIds :
          transactions[t].transaction_date = report.end_date * TicksPerDay + 1

\* C20: through every create, edit and delete of expenses no Expense row
\* has both a workshop and a concert, and a POST that links both is
\* rejected with the stored rows left as they were.
C20_ExpenseLinksOneEvent ==
    [][/\ \A e \in DOMAIN expenses' :
             ~(expenses'[e].workshop # NoLink /\ expenses'[e].concert # NoLink)
       /\ (/\ report' # report
           /\ report'.kind = "expense_form"
           /\ report'.workshop # NoLink
           /\ report'.concert # NoLink) => (expenses' = expenses /\ ~report'.saved)
      ]_vars

\* an edit that links both has been turned down while the rows hold an
\* expense of a workshop and an expense of a concert
C20_Witness ==
    /\ report.kind = "expense_form" /\ report.via = "edit"
    /\ report.workshop # NoLink /\ report.concert # NoLink
    /\ ~report.saved
    /\ \E e \in DOMAIN expenses : expenses[e].workshop # NoLink
    /\ \E e \in DOMAIN expenses : expenses[e].concert # NoLink

C22_LegacyDropsByCreated ==
    [][(report'.outcome = "done") =>
          workshop'.legacy_bookings = Max(0, workshop.legacy_bookings - report'.created)
      ]_vars

\* C23: when a write of the batch fails part-way, the users, registrations
\* and fee records and the workshop's legacy_bookings and
\* current_registrations are as before the import.
C23_FailedBatchLeavesNothing ==
    [][(report'.outcome = "failed") =>
          UNCHANGED <<users, regs, transactions, workshop>>
      ]_vars

\* the second of two new buyers' fee records was refused, after the first
\* buyer's user, registration and fee record had been written
C23_Witness ==
    /\ report.kind = "import"
    /\ report.outcome = "failed"
    /\ report.created = 2
    /\ report.rows[1].fee <= report.rows[1].amount
    /\ report.rows[2].fee > report.rows[2].amount
    /\ report.rows[1].email \notin users

\* C24: every paid order recorded for a checkout session holds the quantity
\* that session was opened and paid for.
C24_OrderMatchesSession ==
    \A o \in OrderIds :
        (orders[o].status = "paid" /\ orders[o].stripe_checkout_session_id # NoSid) =>
            orders[o].quantity = stripe[orders[o].stripe_checkout_session_id].quantity

\* C25: a checkout session id moves a workshop registration into paid at most
\* once: a success return that presents a session id whose purchase has
\* already been recorded, finding the registration cancelled or refunded and
\* new registration data staged, does not mark the registration paid.
C25_ConsumedSessionPaysOnce ==
    [][\A r \in Requests :
          (/\ req[r].h = "w_success"
           /\ req[r].replay
           /\ req'[r] # req[r]
           /\ req[r].data # NoData
           /\ regs[req[r].data].status \in {"cancelled", "refunded"})
          => regs'[req[r].data].status # "paid"]_vars

\* C27: self-service cancellation moves a registration from paid to refunded
\* only when Stripe holds a refund for its payment; this holds for every paid
\* registration, those without a payment intent included.
C27_RefundedOnlyWithRefund ==
    [][\A b \in Buyers :
          (regs[b].status = "paid" /\ regs'[b].status = "refunded")
          => /\ regs[b].stripe_payment_intent_id # NoPi
             /\ stripe[regs[b].stripe_payment_intent_id].refunds >= 1]_vars

\* C28: the save of a confirmed cancellation request that finds the row paid
\* writes the requesting user's own row: its status becomes refunded when the
\* workshop is REFUND_DAYS or more days away and cancelled otherwise, nothing
\* else in the ledger changes, and current_registrations drops by one.  A
\* refund that Stripe rejects leaves the registration, the counter and the
\* request slots as they were.
C28_CancellationEffect ==
    [][/\ \A r \in Requests :
             (/\ req[r].h = "w_cancel"
              /\ req'[r] = Idle
              /\ regs[req[r].data].status = "paid")
             => /\ req[r].buyer = req[r].data
                /\ regs' = [regs EXCEPT ![req[r].data].status =
                                IF days_until_workshop >= REFUND_DAYS
                                THEN "refunded" ELSE "cancelled"]
                /\ workshop'.current_registrations =
                       workshop.current_registrations - 1
       /\ (hist' # hist /\ stripe' = stripe)
             => /\ regs' = regs
                /\ workshop' = workshop
                /\ req' = req]_vars

\* C29: whatever the interleaving of two confirmed cancellation requests for
\* one paid registration, stripe.Refund.create is called at most once for its
\* payment: no refund is requested for a payment while another cancellation
\* request that has had its refund created is still in flight.
C29_OneRefundRequest ==
    [][\A s \in Sessions :
          hist'[s].refund_requests > hist[s].refund_requests
          => \A r \in Requests :
                ~(/\ req[r].h = "w_cancel"
                  /\ req[r].row.status = "refunded"
                  /\ req[r].row.stripe_payment_intent_id = s)]_vars

\* C26: when a run of sync_stripe_fees --all ends and Stripe has answered for
\* every payment it processed (each has its fee record), every paid order and
\* every paid registration has a fee record.
C26_CompletedSyncLeavesNoGap ==
    [][\A k \in SyncRuns :
          (/\ syncs[k].pc = "items"
           /\ syncs'[k] = NoRun
           /\ \A p \in syncs[k].done :
                 transactions_of(syncs[k].intents[p].type, syncs[k].intents[p].id) # {})
          => /\ \A o \in OrderIds :
                   orders[o].status = "paid" => transactions_of("concert", o) # {}
             /\ \A u \in Buyers :
                   regs[u].status = "paid" => transactions_of("workshop", u) # {}]_vars

\* C30: after any sequence of programme_add_item, programme_reorder and
\* programme_item_delete, no two items of the programme have the same order.
C30_OrdersDistinct ==
    \A a \in ItemPks, b \in ItemPks : a # b => items[a] # items[b]

====
